---- MODULE Spec2Model ----
(***************************************************************************)
(* Model of the mlproject data-transformation component:                   *)
(*   src/components/data_transformation.py  (DataTransformation)           *)
(*   src/utils.py                           (save_object)                  *)
(*   src/exception.py                       (CustomException)              *)
(*   src/logger.py                          (module-level logging setup)   *)
(*                                                                         *)
(* Three specifications share the variables:                               *)
(*   Spec      calls of initiate_data_transformation in one working dir    *)
(*   SpecSave  calls of save_object with arbitrary target paths            *)
(*   SpecLog   processes importing src.logger and logging messages         *)
(***************************************************************************)
EXTENDS Integers, Sequences, FiniteSets, TLC

VARIABLES
    pc,               \* "idle" | "returned" | "raised" : position of the caller
    runs,             \* number of initiate_data_transformation calls made
    train_csv,        \* what pd.read_csv(train_path) finds (None = no file)
    test_csv,         \* what pd.read_csv(test_path) finds
    fs,               \* file system: [dirs, files]
    fault,            \* I/O error the environment raises inside save_object
    result,           \* Some(<<train_arr, test_arr, path>>) or None
    exc,              \* Some(exception propagated to the caller) or None
    cause,            \* Some(first exception raised during the call) or None
    log,              \* messages given to logging.info during the call
    calls,            \* calls made on preprocessing_obj / save_object, in order
    preprocessing_obj,\* Some(fitted state) or None (unfitted / not built)
    feature_arrs,     \* [train, test]: Some(transform output) or None
    artifact_before,  \* content of the artifact file when the call began
    last_success,     \* Some(pipeline persisted by the latest returning call)
    save_req,         \* SpecSave: Some([file_path, obj, fault]) of the last call
    save_exc,         \* SpecSave: Some(exception of the last call) or None
    clock,            \* SpecLog: wall clock in ticks
    proc,             \* SpecLog: [id, loaded, LOG_FILE_PATH] of the live process
    console,          \* SpecLog: records written to the console
    run_files         \* SpecLog: LOG_FILE_PATH of every process so far

vars == <<pc, runs, train_csv, test_csv, fs, fault, result, exc, cause, log,
          calls, preprocessing_obj, feature_arrs, artifact_before,
          last_success, save_req, save_exc, clock, proc, console,
          run_files>>

----------------------------------------------------------------------------
(* Bounds of the exploration *)

MaxTrainRows == 2      \* rows of the training table, first call of a run
MaxTestRows == 1       \* rows of the evaluation table, first call of a run
MaxRuns == 2           \* calls of initiate_data_transformation
MaxClock == 4          \* SpecLog: clock ticks
MaxProcs == 3          \* SpecLog: processes started
MaxLogLines == 2       \* SpecLog: records per log file
TicksPerSecond == 2    \* SpecLog: clock ticks in one second

----------------------------------------------------------------------------
(* Optional values, rationals *)

None == <<>>
Some(x) == <<x>>

\* F applied to the value of v
With(v, F(_)) == F(v)

Abs(i) == IF i < 0 THEN 0 - i ELSE i

RECURSIVE GCD(_, _)
GCD(a, b) == IF b = 0 THEN a ELSE GCD(b, a % b)

\* the rational n/d in lowest terms with a positive denominator
Q(n, d) ==
    With(GCD(Abs(n), Abs(d)), LAMBDA g :
        IF d < 0 THEN [n |-> (0 - n) \div g, d |-> (0 - d) \div g]
        ELSE [n |-> n \div g, d |-> d \div g])

QInt(i) == [n |-> i, d |-> 1]
QAdd(a, b) == Q(a.n * b.d + b.n * a.d, a.d * b.d)
QSub(a, b) == Q(a.n * b.d - b.n * a.d, a.d * b.d)
QMul(a, b) == Q(a.n * b.n, a.d * b.d)
QDivInt(a, k) == Q(a.n, a.d * k)

RECURSIVE QSum(_)
QSum(s) == IF s = <<>> THEN QInt(0) ELSE QAdd(Head(s), QSum(Tail(s)))

\* np.mean / np.var (population variance) of a non-empty sequence of
\* rationals: the variance is the mean of the squares less the squared mean
Mean(s) == QDivInt(QSum(s), Len(s))
Var(s) ==
    With(Mean(s), LAMBDA m :
        QSub(Mean([i \in 1..Len(s) |-> QMul(s[i], s[i])]), QMul(m, m)))

\* a cell of a float array: the number x / sqrt(v)
Cell(x, v) == [x |-> x, v |-> v]

----------------------------------------------------------------------------
(* Tables *)

numerical_columns == <<"writing_score", "reading_score">>

categorical_columns ==
    <<"gender", "race_ethnicity", "parental_level_of_education", "lunch",
      "test_preparation_course">>

target_column_name == "math_score"

Range(s) == {s[i] : i \in 1..Len(s)}

AllColumns ==
    Range(numerical_columns) \cup Range(categorical_columns)
        \cup {target_column_name}

\* lexicographic order of the category values the tables use
CategoryOrder ==
    <<"female", "group A", "male", "none", "some college", "standard">>

\* a row of the data set; a cell is <<>> (missing) or <<value>>
Row(g, w, m) ==
    [c \in AllColumns |->
        CASE c = "gender" -> g
          [] c = "writing_score" -> w
          [] c = "math_score" -> <<m>>
          [] c = "reading_score" -> <<2>>
          [] c = "race_ethnicity" -> <<"group A">>
          [] c = "parental_level_of_education" -> <<"some college">>
          [] c = "lunch" -> <<"standard">>
          [] c = "test_preparation_course" -> <<"none">>]

\* the sample rows the tables are made of: both genders and a missing one,
\* two writing scores and a missing one, two targets
Rows ==
    {Row(<<"female">>, <<1>>, 1),
     Row(<<"male">>, <<1>>, 2),
     Row(<<"male">>, <<3>>, 1),
     Row(<<>>, <<1>>, 1),
     Row(<<"female">>, <<>>, 2)}

RowSeqs(max) == UNION {[1..n -> Rows] : n \in 0..max}

\* schemas that lack the target or a configured column
DefectiveColumnSets ==
    {AllColumns \ {target_column_name}, AllColumns \ {"gender"}}

Restrict(row, cols) == [c \in cols |-> row[c]]

Table(cols, rows) ==
    [columns |-> cols,
     rows |-> [i \in 1..Len(rows) |-> Restrict(rows[i], cols)]]

\* the tables with the full schema and up to max rows, and the tables with
\* a defective schema and up to one row
Tables(max) ==
    {Table(AllColumns, rs) : rs \in RowSeqs(max)}
    \cup {Table(cs, rs) : cs \in DefectiveColumnSets, rs \in RowSeqs(1)}

\* what a path given to pd.read_csv holds: no file, or a table
Files(max) == {None} \cup {Some(t) : t \in Tables(max)}

----------------------------------------------------------------------------
(* pandas: the two data-frame operations the orchestrator uses *)

\* df.drop(columns=[name], axis=1); the caller checks name \in df.columns
Drop(df, name) == Table(df.columns \ {name}, df.rows)

\* df[name] as np.array: the column as a sequence of cells
Column(df, name) == [i \in 1..Len(df.rows) |-> df.rows[i][name]]

Values(col) ==
    With(SelectSeq(col, LAMBDA v : v # <<>>), LAMBDA present :
        [i \in 1..Len(present) |-> present[i][1]])

----------------------------------------------------------------------------
(* sklearn: SimpleImputer, StandardScaler, OneHotEncoder *)

\* k-th smallest (1-based) of a non-empty sequence of integers
Kth(vals, k) ==
    CHOOSE v \in Range(vals) :
        /\ Cardinality({i \in 1..Len(vals) : vals[i] < v}) < k
        /\ k <= Cardinality({i \in 1..Len(vals) : vals[i] <= v})

\* np.median
Median(vals) ==
    LET n == Len(vals)
    IN  IF n % 2 = 1 THEN QInt(Kth(vals, (n + 1) \div 2))
        ELSE Q(Kth(vals, n \div 2) + Kth(vals, n \div 2 + 1), 2)

Count(vals, v) == Cardinality({i \in 1..Len(vals) : vals[i] = v})

\* most frequent value, the smallest one on a tie
MostFrequent(vals) ==
    With([v \in Range(vals) |-> Count(vals, v)], LAMBDA count :
    With({v \in DOMAIN count : \A u \in DOMAIN count : count[u] <= count[v]},
         LAMBDA modes :
    CategoryOrder[CHOOSE i \in 1..Len(CategoryOrder) :
        /\ CategoryOrder[i] \in modes
        /\ \A j \in 1..(i - 1) : CategoryOrder[j] \notin modes]))

\* SimpleImputer(strategy="median").fit : statistics_ per column;
\* a column without any observed value gets no statistic
MedianImputerFit(X, cols) ==
    [c \in Range(cols) |->
        With(Values(Column(X, c)), LAMBDA vals :
            IF vals = <<>> THEN None ELSE Some(Median(vals)))]

\* SimpleImputer(strategy="most_frequent").fit
ModeImputerFit(X, cols) ==
    [c \in Range(cols) |->
        With(Values(Column(X, c)), LAMBDA vals :
            IF vals = <<>> THEN None ELSE Some(MostFrequent(vals)))]

\* the columns SimpleImputer.transform keeps (keep_empty_features=False)
Kept(cols, statistics) == SelectSeq(cols, LAMBDA c : statistics[c] # None)

\* SimpleImputer.transform on numeric columns: rows of rationals
MedianImputerTransform(statistics, kept, X) ==
    [i \in 1..Len(X.rows) |->
        [j \in 1..Len(kept) |->
            IF X.rows[i][kept[j]] = <<>> THEN statistics[kept[j]][1]
            ELSE QInt(X.rows[i][kept[j]][1])]]

\* SimpleImputer.transform on categorical columns: rows of category values
ModeImputerTransform(statistics, kept, X) ==
    [i \in 1..Len(X.rows) |->
        [j \in 1..Len(kept) |->
            IF X.rows[i][kept[j]] = <<>> THEN statistics[kept[j]][1]
            ELSE X.rows[i][kept[j]][1]]]

ArrColumn(data, j) == [i \in 1..Len(data) |-> data[i][j]]

\* StandardScaler: a zero variance scales by 1
Scale(var) == IF var.n = 0 THEN QInt(1) ELSE var

\* OneHotEncoder.fit : categories_[j], the sorted distinct values of column j
Categories(data, j) ==
    SelectSeq(CategoryOrder, LAMBDA v : v \in Range(ArrColumn(data, j)))

RECURSIVE Flatten(_)
Flatten(ss) == IF ss = <<>> THEN <<>> ELSE Head(ss) \o Flatten(Tail(ss))

\* OneHotEncoder.transform of one row: the indicators, column after column
Encode(categories, row) ==
    Flatten([j \in 1..Len(row) |->
        [l \in 1..Len(categories[j]) |->
            IF row[j] = categories[j][l] THEN QInt(1) ELSE QInt(0)]])

Unknown(categories, data) ==
    \E i \in 1..Len(data) : \E j \in 1..Len(data[i]) :
        data[i][j] \notin Range(categories[j])

----------------------------------------------------------------------------
(* The two pipelines of get_data_transformer_object *)

NoSamples == "Found array with 0 sample(s)"
NoFeatures == "Found array with 0 feature(s)"
UnknownCategories == "Found unknown categories"
NotAColumn == "A given column is not a column of the dataframe"
ColumnsMissing == "columns are missing"

Failed(msg) == [err |-> Some(msg)]

\* StandardScaler.transform on the imputed numeric block
NumScale(st, imputed) ==
    [i \in 1..Len(imputed) |->
        [j \in 1..Len(st.kept) |->
            Cell(QSub(imputed[i][j], st.mean_[j]), Scale(st.var_[j]))]]

\* num_pipeline.transform with fitted state st
NumTransform(st, X) ==
    IF Len(X.rows) = 0 THEN Failed(NoSamples)
    ELSE [err |-> None,
          out |-> NumScale(st, MedianImputerTransform(st.statistics_, st.kept, X))]

\* num_pipeline.fit_transform : imputer (median), then StandardScaler
NumFitTransform(X) ==
    IF Len(X.rows) = 0 THEN Failed(NoSamples)
    ELSE
    With(MedianImputerFit(X, numerical_columns), LAMBDA statistics :
    With(Kept(numerical_columns, statistics), LAMBDA kept :
    IF kept = <<>> THEN Failed(NoFeatures)
    ELSE
    With(MedianImputerTransform(statistics, kept, X), LAMBDA imputed :
    With([statistics_ |-> statistics,
          kept |-> kept,
          mean_ |-> [j \in 1..Len(kept) |-> Mean(ArrColumn(imputed, j))],
          var_ |-> [j \in 1..Len(kept) |-> Var(ArrColumn(imputed, j))]],
         LAMBDA st :
    [err |-> None, st |-> st, out |-> NumScale(st, imputed)]))))

\* StandardScaler(with_mean=False).transform on the one-hot block
CatScale(st, encoded) ==
    [i \in 1..Len(encoded) |->
        [l \in 1..Len(encoded[i]) |-> Cell(encoded[i][l], Scale(st.var_[l]))]]

\* CatTransform with handle_unknown="ignore": an unknown category encodes
\* as a row of zeros
CatTransformIgnore(st, X) ==
    IF Len(X.rows) = 0 THEN Failed(NoSamples)
    ELSE
    With(ModeImputerTransform(st.statistics_, st.kept, X), LAMBDA imputed :
    [err |-> None,
     out |-> CatScale(st, [i \in 1..Len(imputed) |->
                              Encode(st.categories_, imputed[i])])])

\* cat_pipeline.transform with fitted state st; OneHotEncoder() keeps the
\* default handle_unknown="error"
CatTransform(st, X) ==
    IF Len(X.rows) = 0 THEN Failed(NoSamples)
    ELSE
    With(ModeImputerTransform(st.statistics_, st.kept, X), LAMBDA imputed :
    IF Unknown(st.categories_, imputed) THEN Failed(UnknownCategories)
    ELSE [err |-> None,
          out |-> CatScale(st, [i \in 1..Len(imputed) |->
                                   Encode(st.categories_, imputed[i])])])

\* cat_pipeline.fit_transform : imputer (mode), OneHotEncoder,
\* StandardScaler(with_mean=False)
CatFitTransform(X) ==
    IF Len(X.rows) = 0 THEN Failed(NoSamples)
    ELSE
    With(ModeImputerFit(X, categorical_columns), LAMBDA statistics :
    With(Kept(categorical_columns, statistics), LAMBDA kept :
    IF kept = <<>> THEN Failed(NoFeatures)
    ELSE
    With(ModeImputerTransform(statistics, kept, X), LAMBDA imputed :
    With([j \in 1..Len(kept) |-> Categories(imputed, j)], LAMBDA categories :
    With([i \in 1..Len(imputed) |-> Encode(categories, imputed[i])],
         LAMBDA encoded :
    With([statistics_ |-> statistics,
          kept |-> kept,
          categories_ |-> categories,
          var_ |-> [l \in 1..Len(Flatten(categories)) |->
                      Var(ArrColumn(encoded, l))]],
         LAMBDA st :
    [err |-> None, st |-> st, out |-> CatScale(st, encoded)]))))))

----------------------------------------------------------------------------
(* ColumnTransformer([num_pipeline, cat_pipeline]) *)

FeatureColumns == Range(numerical_columns) \cup Range(categorical_columns)

\* get_feature_names_out : <<pipeline, column>> or <<pipeline, column, category>>
FeatureNames(st) ==
    [j \in 1..Len(st.num.kept) |-> <<"num_pipeline", st.num.kept[j]>>]
    \o Flatten([j \in 1..Len(st.cat.kept) |->
          [l \in 1..Len(st.cat.categories_[j]) |->
              <<"cat_pipeline", st.cat.kept[j], st.cat.categories_[j][l]>>]])

\* _hstack : the blocks side by side; sparse when the fitted flag says so
HStack(st, num_out, cat_out) ==
    [names |-> FeatureNames(st),
     sparse |-> st.sparse_output_,
     data |-> [i \in 1..Len(num_out) |-> num_out[i] \o cat_out[i]]]

\* the one-hot block is sparse: the stacked output is sparse when
\* nnz / total < sparse_threshold (0.3)
SparseOutput(n, num_st, cat_st) ==
    LET nnz == n * Len(num_st.kept) + n * Len(cat_st.kept)
        total == n * (Len(num_st.kept) + Len(Flatten(cat_st.categories_)))
    IN  10 * nnz < 3 * total

\* ColumnTransformer.fit_transform : fits both pipelines on X and stacks
\* their outputs
FitTransform(X) ==
    IF ~ (FeatureColumns \subseteq X.columns) THEN Failed(NotAColumn)
    ELSE
    With(NumFitTransform(X), LAMBDA num :
    IF num.err # None THEN Failed(num.err[1])
    ELSE
    With(CatFitTransform(X), LAMBDA cat :
    IF cat.err # None THEN Failed(cat.err[1])
    ELSE
    With([num |-> num.st,
          cat |-> cat.st,
          sparse_output_ |-> SparseOutput(Len(X.rows), num.st, cat.st)],
         LAMBDA st :
    [err |-> None, st |-> st, out |-> HStack(st, num.out, cat.out)])))

\* Transform with a leak: the statistics are learned again from X
TransformRefit(st, X) == FitTransform(X)

\* ColumnTransformer.transform : st is the state of the object before the
\* call, the st of the result its state after it
Transform(st, X) ==
    IF ~ (FeatureColumns \subseteq X.columns) THEN Failed(ColumnsMissing)
    ELSE
    With(NumTransform(st.num, X), LAMBDA num :
    IF num.err # None THEN Failed(num.err[1])
    ELSE
    With(CatTransform(st.cat, X), LAMBDA cat :
    IF cat.err # None THEN Failed(cat.err[1])
    ELSE [err |-> None, st |-> st, out |-> HStack(st, num.out, cat.out)]))

\* np.array(series) as a float column
TargetCell(c) == Cell(QInt(c[1]), QInt(1))

ShapeMismatch == "all the input array dimensions except for the concatenation axis must match exactly"

\* AppendColumn with the operands swapped: np.c_[target, arr]
AppendColumnFirst(arr, target) ==
    IF arr.sparse
    THEN IF Len(target) = 1
         THEN [err |-> None,
               out |-> <<<<TargetCell(target[1]), [object |-> arr]>>>>]
         ELSE Failed(ShapeMismatch)
    ELSE [err |-> None,
          out |-> [i \in 1..Len(arr.data) |->
                      <<TargetCell(target[i])>> \o arr.data[i]]]

\* np.c_[arr, target] : a sparse matrix enters as one object cell
AppendColumn(arr, target) ==
    IF arr.sparse
    THEN IF Len(target) = 1
         THEN [err |-> None,
               out |-> <<<<[object |-> arr], TargetCell(target[1])>>>>]
         ELSE Failed(ShapeMismatch)
    ELSE [err |-> None,
          out |-> [i \in 1..Len(arr.data) |->
                      Append(arr.data[i], TargetCell(target[i]))]]

----------------------------------------------------------------------------
(* src/exception.py *)

TransformationFile == "src/components/data_transformation.py"
UtilsFile == "src/utils.py"

Frame(file, line) == [file |-> file, line |-> line]

\* an exception raised inside a library: its traceback starts at the raise
LibraryError(type, text, library) ==
    [type |-> type, args |-> <<text>>, tb |-> <<Frame(library, 0)>>]

\* the exception as a handler in `file` sees it, the try block having made
\* the call at `line`: sys.exc_info() begins with the handler's own frame
Caught(e, file, line) == [e EXCEPT !.tb = <<Frame(file, line)>> \o @]

\* str(error): a formatted message is the list of its "Error occured in ..."
\* prefixes around the innermost text
Str(e) ==
    IF e.type = "CustomException" THEN e.error_message
    ELSE [prefixes |-> <<>>, text |-> e.args[1]]

error_message_detail(error, exc_tb) ==
    [prefixes |-> <<[file_name |-> exc_tb[1].file, lineno |-> exc_tb[1].line]>>
                    \o Str(error).prefixes,
     text |-> Str(error).text]

\* CustomException(e, sys) raised at raise_site while e is being handled
CustomException(e, raise_site) ==
    [type |-> "CustomException",
     args |-> <<e>>,
     error_message |-> error_message_detail(e, e.tb),
     tb |-> <<raise_site>>]

RECURSIVE RootCause(_)
RootCause(e) ==
    IF e.type = "CustomException" THEN RootCause(e.args[1]) ELSE e

----------------------------------------------------------------------------
(* os.path, os.makedirs, open: paths are sequences of names and "/" *)

Sep == "/"

join(a, b) == a \o <<Sep>> \o b

LastSep(p) ==
    IF \E i \in 1..Len(p) : p[i] = Sep
    THEN CHOOSE i \in 1..Len(p) :
            p[i] = Sep /\ \A j \in (i + 1)..Len(p) : p[j] # Sep
    ELSE 0

RECURSIVE RStrip(_)
RStrip(p) ==
    IF p # <<>> /\ p[Len(p)] = Sep THEN RStrip(SubSeq(p, 1, Len(p) - 1))
    ELSE p

\* os.path.split
split(p) ==
    LET i == LastSep(p)
        head == SubSeq(p, 1, i)
    IN  [head |-> IF RStrip(head) = <<>> THEN head ELSE RStrip(head),
         tail |-> SubSeq(p, i + 1, Len(p))]

dirname(p) == split(p).head

exists(f, p) == p \in f.dirs \/ p \in DOMAIN f.files
isdir(f, p) == p \in f.dirs

OSFailed(f, type) == [fs |-> f, err |-> Some(type)]

\* os.mkdir : relative names live in the working directory
mkdir(f, name) ==
    IF name = <<>> THEN OSFailed(f, "FileNotFoundError")
    ELSE IF exists(f, name) THEN OSFailed(f, "FileExistsError")
    ELSE IF dirname(name) # <<>> /\ ~ isdir(f, dirname(name))
         THEN OSFailed(f, "FileNotFoundError")
    ELSE [fs |-> [f EXCEPT !.dirs = @ \cup {name}], err |-> None]

\* os.makedirs(name, exist_ok=True)
RECURSIVE makedirs(_, _)
makedirs(f, name) ==
    LET first == split(name)
        parts == IF first.tail = <<>> THEN split(first.head) ELSE first
        up == IF parts.head # <<>> /\ parts.tail # <<>> /\ ~ exists(f, parts.head)
              THEN makedirs(f, parts.head)
              ELSE [fs |-> f, err |-> None]
        made == mkdir(up.fs, name)
    IN  IF up.err # None /\ up.err # Some("FileExistsError") THEN up
        ELSE IF made.err # None /\ isdir(up.fs, name)
             THEN [fs |-> up.fs, err |-> None]
        ELSE made

\* content of a file written by dill.dump
Incomplete == [complete |-> FALSE]
Serialized(obj) == [complete |-> TRUE, obj |-> obj]

WriteFile(f, p, content) ==
    [f EXCEPT !.files = [q \in DOMAIN @ \cup {p} |->
                            IF q = p THEN content ELSE @[q]]]

\* open(file_path, "wb") : creates or truncates
open(f, p) ==
    IF p = <<>> THEN OSFailed(f, "FileNotFoundError")
    ELSE IF isdir(f, p) THEN OSFailed(f, "IsADirectoryError")
    ELSE IF dirname(p) # <<>> /\ ~ isdir(f, dirname(p))
         THEN OSFailed(f, "FileNotFoundError")
    ELSE [fs |-> WriteFile(f, p, Incomplete), err |-> None]

----------------------------------------------------------------------------
(* src/utils.py *)

\* Python objects handed to dill: a generator cannot be pickled
Object(class, state) == [class |-> class, state |-> state]
Serializable(obj) == obj.class # "generator"

IOFaults == {"none", "makedirs", "open", "dump"}

ErrText(type) ==
    CASE type = "FileNotFoundError" -> "[Errno 2] No such file or directory"
      [] type = "FileExistsError" -> "[Errno 17] File exists"
      [] type = "IsADirectoryError" -> "[Errno 21] Is a directory"
      [] type = "PermissionError" -> "[Errno 13] Permission denied"
      [] type = "OSError" -> "[Errno 28] No space left on device"
      [] type = "TypeError" -> "cannot pickle object"

\* the except clause of save_object (lines 21-23)
SaveFailed(f, type, library, line) ==
    [fs |-> f,
     cause |-> Some(LibraryError(type, ErrText(type), library)),
     exc |-> Some(CustomException(
                Caught(LibraryError(type, ErrText(type), library), UtilsFile, line),
                Frame(UtilsFile, 23)))]

\* save_object with "except Exception: pass": a failure is not raised
save_object_silent(f, file_path, obj, flt) ==
    LET dir_path == dirname(file_path)
        made == IF flt = "makedirs" THEN OSFailed(f, "PermissionError")
                ELSE makedirs(f, dir_path)
        opened == IF flt = "open" THEN OSFailed(made.fs, "PermissionError")
                  ELSE open(made.fs, file_path)
    IN  [fs |-> IF made.err # None THEN made.fs
                ELSE IF opened.err # None \/ flt = "dump" \/ ~ Serializable(obj)
                     THEN opened.fs
                ELSE WriteFile(opened.fs, file_path, Serialized(obj)),
         cause |-> None,
         exc |-> None]

\* save_object(file_path, obj); flt is the I/O error the environment injects
save_object(f, file_path, obj, flt) ==
    LET dir_path == dirname(file_path)
        made == IF flt = "makedirs" THEN OSFailed(f, "PermissionError")
                ELSE makedirs(f, dir_path)
        opened == IF flt = "open" THEN OSFailed(made.fs, "PermissionError")
                  ELSE open(made.fs, file_path)
    IN  IF made.err # None THEN SaveFailed(made.fs, made.err[1], "os.py", 15)
        ELSE IF opened.err # None
             THEN SaveFailed(opened.fs, opened.err[1], "io.py", 18)
        ELSE IF flt = "dump" THEN SaveFailed(opened.fs, "OSError", "dill.py", 19)
        ELSE IF ~ Serializable(obj)
             THEN SaveFailed(opened.fs, "TypeError", "dill.py", 19)
        ELSE [fs |-> WriteFile(opened.fs, file_path, Serialized(obj)),
              cause |-> None,
              exc |-> None]

----------------------------------------------------------------------------
(* src/components/data_transformation.py *)

\* DataTransformationConfig.preprocessor_obj_file_path
preprocessor_obj_file_path == join(<<"artifacts">>, <<"preprocessor.pkl">>)

SavedMessage == "Saved preprocessing object."

\* get_data_transformer_object : logs the column lists, returns the
\* unfitted ColumnTransformer
get_data_transformer_object ==
    [log |-> <<"Numerical columns: ['writing_score', 'reading_score']",
               "Categorical columns: ['gender', 'race_ethnicity', 'parental_level_of_education', 'lunch', 'test_preparation_course']">>,
     preprocessor |-> None]

NoArrs == [train |-> None, test |-> None]

Locals(lg, cl, obj, arrs) ==
    [log |-> lg, calls |-> cl, preprocessing_obj |-> obj, feature_arrs |-> arrs]

\* Raised with a bare "raise": the exception leaves unwrapped
RaisedUnwrapped(e, line, st, f) ==
    [status |-> "raised",
     result |-> None,
     exc |-> Some(Caught(e, TransformationFile, line)),
     cause |-> Some([type |-> RootCause(e).type, args |-> RootCause(e).args]),
     log |-> st.log,
     calls |-> st.calls,
     preprocessing_obj |-> st.preprocessing_obj,
     feature_arrs |-> st.feature_arrs,
     fs |-> f]

\* the except clause of initiate_data_transformation (lines 180-181):
\* e was raised by the call the try block made at `line`
Raised(e, line, st, f) ==
    [status |-> "raised",
     result |-> None,
     exc |-> Some(CustomException(Caught(e, TransformationFile, line),
                                  Frame(TransformationFile, 181))),
     cause |-> Some([type |-> RootCause(e).type, args |-> RootCause(e).args]),
     log |-> st.log,
     calls |-> st.calls,
     preprocessing_obj |-> st.preprocessing_obj,
     feature_arrs |-> st.feature_arrs,
     fs |-> f]

Call(op, arg, X) == [op |-> op, arg |-> arg, X |-> X]

Log1 ==
    <<"Read train and test data completed", "Obtaining preprocessing object">>
    \o get_data_transformer_object.log

Log2 ==
    Append(Log1, "Applying preprocessing object on training dataframe and testing dataframe.")

FileNotFound ==
    LibraryError("FileNotFoundError", ErrText("FileNotFoundError"), "pandas")

TargetNotFound ==
    LibraryError("KeyError", "['math_score'] not found in axis", "pandas")

\* lines 137-166 of initiate_data_transformation: everything up to the two
\* arrays. Gives [failed |-> TRUE, e, line, st] or [failed |-> FALSE,
\* train_arr, test_arr, st].
Prepare(train, test) ==
    IF train = None
    THEN [failed |-> TRUE, e |-> FileNotFound, line |-> 138,
          st |-> Locals(<<>>, <<>>, None, NoArrs)]
    ELSE IF test = None
    THEN [failed |-> TRUE, e |-> FileNotFound, line |-> 139,
          st |-> Locals(<<>>, <<>>, None, NoArrs)]
    ELSE IF target_column_name \notin train[1].columns
    THEN [failed |-> TRUE, e |-> TargetNotFound, line |-> 150,
          st |-> Locals(Log1, <<>>, None, NoArrs)]
    ELSE IF target_column_name \notin test[1].columns
    THEN [failed |-> TRUE, e |-> TargetNotFound, line |-> 153,
          st |-> Locals(Log1, <<>>, None, NoArrs)]
    ELSE
    With(Drop(train[1], target_column_name), LAMBDA input_feature_train_df :
    With(Drop(test[1], target_column_name), LAMBDA input_feature_test_df :
    With(FitTransform(input_feature_train_df), LAMBDA fitted :
    With(<<Call("fit_transform", "input_feature_train_df",
                input_feature_train_df)>>, LAMBDA calls1 :
    IF fitted.err # None
    THEN [failed |-> TRUE,
          e |-> LibraryError("ValueError", fitted.err[1], "sklearn"),
          line |-> 160,
          st |-> Locals(Log2, calls1, None, NoArrs)]
    ELSE
    With(Transform(fitted.st, input_feature_test_df), LAMBDA applied :
    With(Append(calls1, Call("transform", "input_feature_test_df",
                             input_feature_test_df)), LAMBDA calls2 :
    IF applied.err # None
    THEN [failed |-> TRUE,
          e |-> LibraryError("ValueError", applied.err[1], "sklearn"),
          line |-> 161,
          st |-> Locals(Log2, calls2, Some(fitted.st),
                        [train |-> Some(fitted.out), test |-> None])]
    ELSE
    With(Locals(Log2, calls2, Some(applied.st),
                [train |-> Some(fitted.out), test |-> Some(applied.out)]),
         LAMBDA st :
    With(AppendColumn(fitted.out, Column(train[1], target_column_name)),
         LAMBDA train_arr :
    IF train_arr.err # None
    THEN [failed |-> TRUE,
          e |-> LibraryError("ValueError", train_arr.err[1], "numpy"),
          line |-> 163, st |-> st]
    ELSE
    With(AppendColumn(applied.out, Column(test[1], target_column_name)),
         LAMBDA test_arr :
    IF test_arr.err # None
    THEN [failed |-> TRUE,
          e |-> LibraryError("ValueError", test_arr.err[1], "numpy"),
          line |-> 166, st |-> st]
    ELSE [failed |-> FALSE, train_arr |-> train_arr.out,
          test_arr |-> test_arr.out, st |-> st])))))))))

\* lines 168-179: the log record, save_object, the return
Persist(p, f, flt) ==
    With(Locals(Append(p.st.log, SavedMessage),
                Append(p.st.calls, Call("save_object", "preprocessing_obj",
                                        p.st.preprocessing_obj[1])),
                p.st.preprocessing_obj, p.st.feature_arrs), LAMBDA st :
    With(save_object(f, preprocessor_obj_file_path,
                     Object("ColumnTransformer", p.st.preprocessing_obj[1]),
                     flt), LAMBDA saved :
    IF saved.exc # None THEN Raised(saved.exc[1], 170, st, saved.fs)
    ELSE [status |-> "returned",
          result |-> Some(<<p.train_arr, p.test_arr, preprocessor_obj_file_path>>),
          exc |-> None,
          cause |-> None,
          log |-> st.log,
          calls |-> st.calls,
          preprocessing_obj |-> st.preprocessing_obj,
          feature_arrs |-> st.feature_arrs,
          fs |-> saved.fs]))

\* initiate_data_transformation(train_path, test_path): p is what lines
\* 137-166 produced from the two files; flt is the I/O error the
\* environment raises inside save_object
initiate_data_transformation(p, f, flt) ==
    IF p.failed THEN Raised(p.e, p.line, p.st, f) ELSE Persist(p, f, flt)

----------------------------------------------------------------------------
(* src/logger.py *)

\* datetime.now().strftime('%m_%d_%Y_%H_%M_%S') + ".log" : the clock cut
\* to whole seconds
TimeStamps ==
    <<"11_01_2026_09_00_00.log", "11_01_2026_09_00_01.log",
      "11_01_2026_09_00_02.log", "11_01_2026_09_00_03.log",
      "11_01_2026_09_00_04.log", "11_01_2026_09_00_05.log">>

LOG_FILE(now) == TimeStamps[(now \div TicksPerSecond) + 1]

\* os.path.join(os.getcwd(), "logs", LOG_FILE), relative to the working dir
logs_path(now) == join(<<"logs">>, <<LOG_FILE(now)>>)

LOG_FILE_PATH(now) == join(logs_path(now), <<LOG_FILE(now)>>)

\* logging.FileHandler(filename, mode="a") : creates the file when absent
OpenAppend(f, p) == IF p \in DOMAIN f.files THEN f ELSE WriteFile(f, p, <<>>)

\* levels at or above level=logging.INFO
Handled(level) == level \in {"INFO", "ERROR"}

----------------------------------------------------------------------------
(* State machine *)

NoFiles == [q \in {} |-> Incomplete]

ArtifactContent(f) ==
    IF preprocessor_obj_file_path \in DOMAIN f.files
    THEN Some(f.files[preprocessor_obj_file_path])
    ELSE None

Init ==
    /\ pc = "idle"
    /\ runs = 0
    /\ train_csv = None
    /\ test_csv = None
    /\ fs = [dirs |-> {}, files |-> NoFiles]
    /\ fault = "none"
    /\ result = None
    /\ exc = None
    /\ cause = None
    /\ log = <<>>
    /\ calls = <<>>
    /\ preprocessing_obj = None
    /\ feature_arrs = NoArrs
    /\ artifact_before = None
    /\ last_success = None
    /\ save_req = None
    /\ save_exc = None
    /\ clock = 0
    /\ proc = [id |-> 0, loaded |-> FALSE, path |-> <<>>]
    /\ console = <<>>
    /\ run_files = <<>>

saveVars == <<save_req, save_exc>>
logVars == <<clock, proc, console, run_files>>
callVars == <<pc, runs, train_csv, test_csv, fault, result, exc, cause, log,
              calls, preprocessing_obj, feature_arrs, artifact_before,
              last_success>>

\* the files explored: tables of up to MaxTrainRows and MaxTestRows rows in
\* the first call, of up to one row in the calls that follow it
TrainFiles(r) == IF r = 0 THEN Files(MaxTrainRows) ELSE Files(1)
TestFiles(r) == IF r = 0 THEN Files(MaxTestRows) ELSE Files(1)

\* one call of DataTransformation().initiate_data_transformation
InitiateDataTransformation ==
    /\ pc = "idle"
    /\ runs < MaxRuns
    /\ \E train \in TrainFiles(runs), test \in TestFiles(runs) :
       \E p \in {Prepare(train, test)} :
       \E flt \in IF p.failed THEN {"none"} ELSE IOFaults :
       \E o \in {initiate_data_transformation(p, fs, flt)} :
            /\ pc' = o.status
            /\ runs' = runs + 1
            /\ train_csv' = train
            /\ test_csv' = test
            /\ fault' = flt
            /\ fs' = o.fs
            /\ result' = o.result
            /\ exc' = o.exc
            /\ cause' = o.cause
            /\ log' = o.log
            /\ calls' = o.calls
            /\ preprocessing_obj' = o.preprocessing_obj
            /\ feature_arrs' = o.feature_arrs
            /\ artifact_before' = ArtifactContent(fs)
            /\ last_success' =
                  IF o.status = "returned"
                  THEN Some(Object("ColumnTransformer", o.preprocessing_obj[1]))
                  ELSE last_success
    /\ UNCHANGED <<saveVars, logVars>>

\* the caller has taken the result or the exception; the frame is gone
CallerContinues ==
    /\ pc \in {"returned", "raised"}
    /\ pc' = "idle"
    /\ train_csv' = None
    /\ test_csv' = None
    /\ fault' = "none"
    /\ result' = None
    /\ exc' = None
    /\ cause' = None
    /\ log' = <<>>
    /\ calls' = <<>>
    /\ preprocessing_obj' = None
    /\ feature_arrs' = NoArrs
    /\ UNCHANGED <<runs, fs, artifact_before, last_success, saveVars, logVars>>

Next == InitiateDataTransformation \/ CallerContinues

Spec == Init /\ [][Next]_vars

----------------------------------------------------------------------------
(* SpecSave: save_object called with arbitrary paths and objects *)

SavePaths ==
    {<<"preprocessor.pkl">>,
     preprocessor_obj_file_path,
     join(join(<<"artifacts">>, <<"models">>), <<"model.pkl">>)}

SaveObjects ==
    {Object("ColumnTransformer", "a"), Object("ColumnTransformer", "b"),
     Object("generator", "g")}

SaveObjectCall ==
    /\ \E file_path \in SavePaths, obj \in SaveObjects, flt \in IOFaults :
        LET r == save_object(fs, file_path, obj, flt)
        IN  /\ fs' = r.fs
            /\ save_req' = Some([file_path |-> file_path, obj |-> obj,
                                 fault |-> flt, before |-> fs])
            /\ save_exc' = r.exc
    /\ UNCHANGED <<callVars, logVars>>

NextSave == SaveObjectCall

SpecSave == Init /\ [][NextSave]_vars

----------------------------------------------------------------------------
(* SpecLog: processes that import src.logger *)

Tick ==
    /\ clock < MaxClock
    /\ clock' = clock + 1
    /\ UNCHANGED <<proc, console, run_files, fs, callVars, saveVars>>

\* a process starts and imports src.logger (lines 21-32)
ImportLogger ==
    /\ ~ proc.loaded
    /\ proc.id < MaxProcs
    /\ LET made == makedirs(fs, logs_path(clock))
       IN  /\ made.err = None
           /\ fs' = OpenAppend(made.fs, LOG_FILE_PATH(clock))
    /\ proc' = [id |-> proc.id + 1, loaded |-> TRUE,
                path |-> LOG_FILE_PATH(clock)]
    /\ run_files' = Append(run_files, LOG_FILE_PATH(clock))
    /\ UNCHANGED <<clock, console, callVars, saveVars>>

\* logging.debug / logging.info / logging.error on the root logger
LoggingCall ==
    /\ proc.loaded
    /\ Len(fs.files[proc.path]) < MaxLogLines
    /\ \E level \in {"DEBUG", "INFO", "ERROR"} :
        fs' = IF Handled(level)
              THEN WriteFile(fs, proc.path,
                       Append(fs.files[proc.path],
                              [run |-> proc.id, levelname |-> level]))
              ELSE fs
    /\ UNCHANGED <<clock, proc, console, run_files, callVars, saveVars>>

ProcessExit ==
    /\ proc.loaded
    /\ proc' = [proc EXCEPT !.loaded = FALSE]
    /\ UNCHANGED <<clock, console, run_files, fs, callVars, saveVars>>

NextLog == Tick \/ ImportLogger \/ LoggingCall \/ ProcessExit

SpecLog == Init /\ [][NextLog]_vars

----------------------------------------------------------------------------
(* Properties *)

Done == pc \in {"returned", "raised"}

FitCalls == SelectSeq(calls, LAMBDA c : c.op = "fit_transform")

\* line 160 is reached: both files were read and both hold the target
ReachesFit ==
    /\ train_csv # None /\ test_csv # None
    /\ target_column_name \in train_csv[1].columns
    /\ target_column_name \in test_csv[1].columns

TrainFeatures == Drop(train_csv[1], target_column_name)

\* C1 as stated: every execution fits the preprocessor exactly once, on the
\* training feature columns only, and the fitted state is the one the
\* training table alone determines, whatever the evaluation table is.
C1_FittedExactlyOnce ==
    Done =>
        /\ Len(FitCalls) = 1
        /\ FitCalls[1].X = TrainFeatures
        /\ \A i \in 1..Len(calls) :
              calls[i].arg = "input_feature_test_df" => calls[i].op = "transform"
        /\ preprocessing_obj = Some(FitTransform(TrainFeatures).st)

\* C1 amended: fit is invoked at most once, exactly when both files are read
\* and both tables hold math_score, and only on the training feature columns;
\* the evaluation table is only passed to transform; whenever the
\* preprocessor is fitted its state, and the artifact a returning call
\* persists, is the one the training table alone determines.
C1_FitOnTrainOnly ==
    Done =>
        /\ Len(FitCalls) <= 1
        /\ (Len(FitCalls) = 1) <=> ReachesFit
        /\ \A i \in 1..Len(calls) :
              /\ calls[i].op = "fit_transform" => calls[i].X = TrainFeatures
              /\ calls[i].arg = "input_feature_test_df" => calls[i].op = "transform"
        /\ preprocessing_obj # None =>
              preprocessing_obj = Some(FitTransform(TrainFeatures).st)
        /\ pc = "returned" =>
              /\ preprocessing_obj # None
              /\ ArtifactContent(fs) =
                    Some(Serialized(Object("ColumnTransformer",
                                           preprocessing_obj[1])))

\* C1 witness: a returning call whose evaluation table has a row and differs
\* from the training table
C1_Witness ==
    /\ pc = "returned"
    /\ Len(FitCalls) = 1
    /\ Len(test_csv[1].rows) = 1
    /\ Len(train_csv[1].rows) = 2
    /\ test_csv[1].rows[1] # train_csv[1].rows[1]

\* the failure the inputs of the call force, per the code's order of steps
ExpectedFailure ==
    IF train_csv = None \/ test_csv = None THEN "FileNotFoundError"
    ELSE IF ~ ReachesFit THEN "KeyError"
    ELSE IF ~ (FeatureColumns \subseteq train_csv[1].columns)
            \/ ~ (FeatureColumns \subseteq test_csv[1].columns)
            \/ Len(train_csv[1].rows) = 0 \/ Len(test_csv[1].rows) = 0
         THEN "ValueError"
    ELSE IF fault = "dump" THEN "OSError"
    ELSE IF fault \in {"makedirs", "open"} THEN "PermissionError"
    ELSE "none"

\* C2: every failure inside initiate_data_transformation (missing file,
\* missing target column, schema mismatch at transform, failure inside
\* save_object) reaches the caller as a CustomException that carries the
\* original exception and its message; nothing is swallowed or retried and
\* a failing call returns no result.
C2_FailuresWrapped ==
    Done =>
        /\ ExpectedFailure # "none" =>
              /\ pc = "raised"
              /\ RootCause(exc[1]).type = ExpectedFailure
        /\ pc = "raised" =>
              /\ result = None
              /\ cause # None
              /\ exc[1].type = "CustomException"
              /\ RootCause(exc[1]).type = cause[1].type
              /\ RootCause(exc[1]).args = cause[1].args
              /\ Str(exc[1]).text = cause[1].args[1]
        /\ pc = "returned" => exc = None /\ cause = None /\ result # None
        /\ \A i, j \in 1..Len(calls) : calls[i].op = calls[j].op => i = j

\* C2 witness: the failure happens inside save_object, while serializing
C2_Witness ==
    /\ pc = "raised"
    /\ fault = "dump"
    /\ exc[1].args[1].type = "CustomException"
    /\ RootCause(exc[1]).type = "OSError"

\* C3 as stated: for every target path, a bare file name included, and every
\* serializable object, save_object ends with the parent directory existing
\* and the file holding the serialized object.
C3_SavesAtAnyPath ==
    (save_req # None /\ save_req[1].fault = "none"
        /\ Serializable(save_req[1].obj)) =>
        /\ save_exc = None
        /\ dirname(save_req[1].file_path) # <<>> =>
              isdir(fs, dirname(save_req[1].file_path))
        /\ save_req[1].file_path \in DOMAIN fs.files
        /\ fs.files[save_req[1].file_path] = Serialized(save_req[1].obj)

\* a configured column of X without any observed value
AllMissing(X, c) ==
    /\ c \in X.columns
    /\ Len(X.rows) > 0
    /\ \A i \in 1..Len(X.rows) : X.rows[i][c] = <<>>

\* C4 as stated: fitting on a table that lacks a configured column, is empty
\* or has an all-missing configured column fails with a CustomException and
\* is never a successful fit.
C4_DefectiveTableFails ==
    (Done /\ Len(FitCalls) = 1
        /\ (\/ ~ (FeatureColumns \subseteq TrainFeatures.columns)
            \/ Len(TrainFeatures.rows) = 0
            \/ \E c \in FeatureColumns : AllMissing(TrainFeatures, c))) =>
        /\ pc = "raised"
        /\ exc[1].type = "CustomException"
        /\ preprocessing_obj = None

\* C5 as stated: every process that loads the logger gets a log file of its
\* own under logs/, and every record it logs goes to that file, none to the
\* console.
C5_LogFilePerRun ==
    /\ \A i, j \in 1..Len(run_files) : run_files[i] = run_files[j] => i = j
    /\ \A i \in 1..Len(run_files) :
          /\ SubSeq(run_files[i], 1, 2) = <<"logs", Sep>>
          /\ run_files[i] \in DOMAIN fs.files
          /\ \A k \in 1..Len(fs.files[run_files[i]]) :
                fs.files[run_files[i]][k].run = i
    /\ console = <<>>

\* C6 as stated: the CustomException reports the file and line at which the
\* exception it wraps was raised, also when that was inside a called function.
C6_ReportsRaiseSite ==
    pc = "raised" =>
        LET caught == exc[1].args[1]
            site == caught.tb[Len(caught.tb)]
        IN  /\ exc[1].error_message.prefixes[1].file_name = site.file
            /\ exc[1].error_message.prefixes[1].lineno = site.line

\* the categories of column c observed in the training table
TrainCategories(c) == Range(Values(Column(train_csv[1], c)))

\* the indicator sub-columns the array has for column c
SubColumns(arr, c) ==
    Cardinality({l \in 1..Len(arr.names) :
        arr.names[l][1] = "cat_pipeline" /\ arr.names[l][2] = c})

OneHotWidths(arr) ==
    /\ \A c \in Range(categorical_columns) :
          SubColumns(arr, c) = Cardinality(TrainCategories(c))
    /\ \A i \in 1..Len(arr.data) : Len(arr.data[i]) = Len(arr.names)

\* the evaluation table has every feature column and at least one row
TestWellFormed ==
    /\ FeatureColumns \subseteq test_csv[1].columns
    /\ Len(test_csv[1].rows) > 0

\* a category of the evaluation table that a fitted column never saw
UnseenCategory ==
    \E c \in Range(categorical_columns) :
        /\ TrainCategories(c) # {}
        /\ ~ (Range(Values(Column(test_csv[1], c))) \subseteq TrainCategories(c))

\* C7 as stated: once the transformer is fitted, the outputs of the training
\* and of the evaluation table both have exactly k indicator sub-columns per
\* categorical column, whatever values the evaluation table holds, unseen
\* ones included.
C7_WidthsForAnyEvaluationTable ==
    (Done /\ preprocessing_obj # None /\ TestWellFormed) =>
        /\ feature_arrs.train # None /\ OneHotWidths(feature_arrs.train[1])
        /\ feature_arrs.test # None /\ OneHotWidths(feature_arrs.test[1])

\* C7 amended: the training output, and the evaluation output whenever its
\* transform succeeds, have exactly k indicator sub-columns per categorical
\* column; an evaluation table holding a category not seen in training makes
\* the transform fail and yields no output.
C7_WidthsWhenTransformSucceeds ==
    Done =>
        /\ feature_arrs.train # None => OneHotWidths(feature_arrs.train[1])
        /\ feature_arrs.test # None => OneHotWidths(feature_arrs.test[1])
        /\ (preprocessing_obj # None /\ TestWellFormed) =>
              /\ feature_arrs.train # None
              /\ (feature_arrs.test = None) <=> UnseenCategory

\* C7 witness: two training categories, an evaluation table with one of them
C7_Witness ==
    /\ Done
    /\ feature_arrs.test # None
    /\ Cardinality(TrainCategories("gender")) = 2
    /\ SubColumns(feature_arrs.test[1], "gender") = 2
    /\ Cardinality(Range(Values(Column(test_csv[1], "gender")))) = 1

TargetsAppended(arr, df) ==
    /\ Len(arr) = Len(df.rows)
    /\ \A i \in 1..Len(arr) :
          arr[i][Len(arr[i])] = TargetCell(df.rows[i][target_column_name])

\* C8: a returning call gives two arrays with as many rows as their input
\* tables, the last column of each holding every row's math_score unchanged.
C8_RowsAndTargetKept ==
    pc = "returned" =>
        /\ TargetsAppended(result[1][1], train_csv[1])
        /\ TargetsAppended(result[1][2], test_csv[1])

\* C8 witness: two training rows with different targets
C8_Witness ==
    /\ pc = "returned"
    /\ Len(result[1][1]) = 2
    /\ Len(result[1][2]) = 1
    /\ train_csv[1].rows[1][target_column_name]
          # train_csv[1].rows[2][target_column_name]

\* C9 as stated: after any runs the artifact file, if present, holds the
\* complete pipeline of the latest returning run, and a failing run leaves
\* the artifact as it was.
C9_ArtifactAlwaysComplete ==
    Done =>
        /\ ArtifactContent(fs) # None =>
              /\ last_success # None
              /\ ArtifactContent(fs) = Some(Serialized(last_success[1]))
        /\ pc = "raised" => ArtifactContent(fs) = artifact_before

\* C9 amended: the artifact file, if present, holds either the complete
\* pipeline of the latest returning run or an incomplete file left by a
\* later run that failed while serializing; a run that fails before
\* save_object has opened the file leaves the artifact as it was.
C9_ArtifactCompleteOrTruncated ==
    Done =>
        /\ ArtifactContent(fs) # None =>
              \/ /\ last_success # None
                 /\ ArtifactContent(fs) = Some(Serialized(last_success[1]))
              \/ ArtifactContent(fs) = Some(Incomplete)
        /\ pc = "returned" =>
              ArtifactContent(fs) = Some(Serialized(last_success[1]))
        /\ (pc = "raised" /\ fault = "dump") =>
              ArtifactContent(fs) = Some(Incomplete)
        /\ (pc = "raised" /\ fault # "dump") =>
              ArtifactContent(fs) = artifact_before

\* C9 witness: a run fails while serializing over a complete artifact
C9_Witness ==
    /\ pc = "raised"
    /\ fault = "dump"
    /\ artifact_before # None
    /\ artifact_before[1].complete
    /\ ArtifactContent(fs) = Some(Incomplete)

\* C10 as stated: "Saved preprocessing object." is in the log of a run only
\* if save_object completed in that run.
C10_SavedLoggedAfterSave ==
    (Done /\ SavedMessage \in Range(log)) =>
        /\ pc = "returned"
        /\ ArtifactContent(fs) # None
        /\ ArtifactContent(fs)[1].complete

====
